---- MODULE Spec2Model ----
(***************************************************************************)
(* Lead-scoring pipeline: the FastAPI service (api-lead-scoring/main.py)   *)
(* and the Flask dashboard (app-lead-scoring/app.py).                      *)
(*                                                                         *)
(* One behaviour is the life of one process of either variant (svc).       *)
(* Request handlers run to completion on the serving thread and are one    *)
(* action each; the FastAPI background task that increments the counter    *)
(* runs on a thread-pool thread and is modelled as a load step and a store *)
(* step.                                                                   *)
(***************************************************************************)
EXTENDS Integers, Sequences, FiniteSets, TLC

(***************************************************************************)
(* State.                                                                  *)
(***************************************************************************)
VARIABLES
    files,               \* the model file and the preprocessor file as the startup
                         \* load found them ("ok", "missing", "corrupt")
    svc,                 \* which variant this process is: "api" (main.py) or "app" (app.py)
    phase,               \* "init" before the startup load has run, then "serving"
    model,               \* global model: "None" or "loaded"
    preprocessor,        \* global preprocessor: "None" or "loaded"
    model_loaded,        \* main.py global flag
    preprocessor_loaded, \* main.py global flag
    predictions_count,   \* main.py global counter
    tasks,               \* main.py: the background tasks handed to the thread pool
    prediction_history,  \* app.py global list
    served,              \* number of predict requests answered with a result
    resp                 \* what the last request saw and was answered; its
                         \* prediction_proba is what predict_proba returned for
                         \* the positive class, in millionths

vars == << files, svc, phase, model, preprocessor, model_loaded, preprocessor_loaded,
           predictions_count, tasks, prediction_history, served, resp >>

(***************************************************************************)
(* Bounds of the model.                                                    *)
(***************************************************************************)
\* successful FastAPI predictions per behaviour
MaxPredictions == 2
\* successful Flask POSTs per behaviour
MaxPosts == 1
\* sustained load: successful FastAPI requests whose increments may overlap
MaxOverlap == 3
\* sustained load: successful Flask submissions (one more than the history holds)
MaxSubmissions == 11

(***************************************************************************)
(* Python values.  Every value is a record of the same shape so that any   *)
(* two values can be compared: kind is "num", "str" or "none" (Python      *)
(* None / a pandas NaN cell).                                              *)
(***************************************************************************)
Num(i) == [kind |-> "num", n |-> i, s |-> ""]
Str(t) == [kind |-> "str", n |-> 0, s |-> t]
None == [kind |-> "none", n |-> 0, s |-> ""]

\* The text of the integer literals that occur in the requests of the model:
\* int("5") = 5, str(5) = "5"; int("abc") raises.
IntLiterals == { <<"-1", -1>>, <<"0", 0>>, <<"5", 5>>, <<"1850", 1850>> }

IsIntLiteral(t) == \E p \in IntLiterals : p[1] = t
ParseInt(t) == (CHOOSE p \in IntLiterals : p[1] = t)[2]
FormatInt(i) == (CHOOSE p \in IntLiterals : p[2] = i)[1]

(***************************************************************************)
(* Ordered dicts (Python dict, DataFrame columns, a JSON object as sent):  *)
(* sequences of <<key, value>> with distinct keys, in insertion order.     *)
(***************************************************************************)
Keys(d) == [i \in 1..Len(d) |-> d[i][1]]
Has(d, k) == \E i \in 1..Len(d) : d[i][1] = k
Lookup(d, k) == d[CHOOSE i \in 1..Len(d) : d[i][1] = k][2]
\* dict.get(k): the value, or None when the key is absent
DictGet(d, k) == IF Has(d, k) THEN Lookup(d, k) ELSE None
\* d[k] = v: replaces in place, or appends a new key last
DictSet(d, k, v) ==
    IF Has(d, k)
    THEN LET i == CHOOSE j \in 1..Len(d) : d[j][1] = k
         IN  SubSeq(d, 1, i - 1) \o << <<k, v>> >> \o SubSeq(d, i + 1, Len(d))
    ELSE Append(d, <<k, v>>)
DictDel(d, k) == SelectSeq(d, LAMBDA p : p[1] # k)
Reverse(d) == [i \in 1..Len(d) |-> d[Len(d) + 1 - i]]

(***************************************************************************)
(* Schema registry.                                                        *)
(***************************************************************************)
EXPECTED_COLUMNS ==
    << "Lead Origin", "Lead Source", "Do Not Email", "Do Not Call", "TotalVisits",
       "Total Time Spent on Website", "Page Views Per Visit", "Last Activity",
       "Country", "Specialization", "What is your current occupation", "Search",
       "Newspaper Article", "X Education Forums", "Newspaper", "Digital Advertisement",
       "Through Recommendations", "Tags", "Lead Quality", "City",
       "A free copy of Mastering The Interview", "Last Notable Activity" >>

\* app.py carries its own copy of the list
APP_EXPECTED_COLUMNS ==
    << "Lead Origin", "Lead Source", "Do Not Email", "Do Not Call", "TotalVisits",
       "Total Time Spent on Website", "Page Views Per Visit", "Last Activity",
       "Country", "Specialization", "What is your current occupation", "Search",
       "Newspaper Article", "X Education Forums", "Newspaper", "Digital Advertisement",
       "Through Recommendations", "Tags", "Lead Quality", "City",
       "A free copy of Mastering The Interview", "Last Notable Activity" >>

numerical_cols == << "TotalVisits", "Total Time Spent on Website", "Page Views Per Visit" >>

Fld(nm, al, ty, rq, df) ==
    [name |-> nm, alias |-> al, type |-> ty, required |-> rq, default |-> df]

\* class LeadScoringRequest: the fields in declaration order.  Numbers are
\* integers in the model, so the float field is coerced like the int fields.
LeadScoringRequest ==
    << Fld("TotalVisits", "TotalVisits", "int", TRUE, ""),
       Fld("Page_Views_Per_Visit", "Page Views Per Visit", "float", TRUE, ""),
       Fld("Total_Time_Spent_on_Website", "Total Time Spent on Website", "int", TRUE, ""),
       Fld("Lead_Origin", "Lead Origin", "str", TRUE, ""),
       Fld("Lead_Source", "Lead Source", "str", TRUE, ""),
       Fld("Last_Activity", "Last Activity", "str", TRUE, ""),
       Fld("What_is_your_current_occupation", "What is your current occupation", "str", TRUE, ""),
       Fld("Do_Not_Email", "Do Not Email", "str", FALSE, "No"),
       Fld("Do_Not_Call", "Do Not Call", "str", FALSE, "No"),
       Fld("Country", "Country", "str", FALSE, "India"),
       Fld("Specialization", "Specialization", "str", FALSE, "Not Specified"),
       Fld("Search", "Search", "str", FALSE, "No"),
       Fld("Newspaper_Article", "Newspaper Article", "str", FALSE, "No"),
       Fld("X_Education_Forums", "X Education Forums", "str", FALSE, "No"),
       Fld("Newspaper", "Newspaper", "str", FALSE, "No"),
       Fld("Digital_Advertisement", "Digital Advertisement", "str", FALSE, "No"),
       Fld("Through_Recommendations", "Through Recommendations", "str", FALSE, "No"),
       Fld("Tags", "Tags", "str", FALSE, "Not Specified"),
       Fld("Lead_Quality", "Lead Quality", "str", FALSE, "Not Specified"),
       Fld("City", "City", "str", FALSE, "Mumbai"),
       Fld("A_free_copy_of_Mastering_The_Interview", "A free copy of Mastering The Interview", "str", FALSE, "No"),
       Fld("Last_Notable_Activity", "Last Notable Activity", "str", FALSE, "Modified") >>

\* a mapping that lacks the entry of Page_Views_Per_Visit
field_mapping_WithoutPageViews ==
    SelectSeq([i \in 1..Len(LeadScoringRequest) |->
                  << LeadScoringRequest[i].name, LeadScoringRequest[i].alias >>],
              LAMBDA fm : fm[1] # "Page_Views_Per_Visit")

\* prepare_features.field_mapping, in insertion order
field_mapping ==
    << <<"TotalVisits", "TotalVisits">>,
       <<"Page_Views_Per_Visit", "Page Views Per Visit">>,
       <<"Total_Time_Spent_on_Website", "Total Time Spent on Website">>,
       <<"Lead_Origin", "Lead Origin">>,
       <<"Lead_Source", "Lead Source">>,
       <<"Last_Activity", "Last Activity">>,
       <<"What_is_your_current_occupation", "What is your current occupation">>,
       <<"Do_Not_Email", "Do Not Email">>,
       <<"Do_Not_Call", "Do Not Call">>,
       <<"Country", "Country">>,
       <<"Specialization", "Specialization">>,
       <<"Search", "Search">>,
       <<"Newspaper_Article", "Newspaper Article">>,
       <<"X_Education_Forums", "X Education Forums">>,
       <<"Newspaper", "Newspaper">>,
       <<"Digital_Advertisement", "Digital Advertisement">>,
       <<"Through_Recommendations", "Through Recommendations">>,
       <<"Tags", "Tags">>,
       <<"Lead_Quality", "Lead Quality">>,
       <<"City", "City">>,
       <<"A_free_copy_of_Mastering_The_Interview", "A free copy of Mastering The Interview">>,
       <<"Last_Notable_Activity", "Last Notable Activity">> >>

(***************************************************************************)
(* Request validation of the FastAPI variant: what pydantic does with the  *)
(* JSON body before predict_lead_conversion is entered.                    *)
(***************************************************************************)
Valid(v) == [ok |-> TRUE, value |-> v]
Invalid == [ok |-> FALSE, value |-> None]

\* int / float field: a number is taken as it is, a string is parsed,
\* anything else is a type error
CoerceNumber(v) ==
    CASE v.kind = "num" -> Valid(v)
      [] v.kind = "str" -> IF IsIntLiteral(v.s) THEN Valid(Num(ParseInt(v.s))) ELSE Invalid
      [] OTHER -> Invalid

\* str field: a string is taken as it is, a number is formatted, null is an error
CoerceStr(v) ==
    CASE v.kind = "str" -> Valid(v)
      [] v.kind = "num" -> Valid(Str(FormatInt(v.n)))
      [] OTHER -> Invalid

\* Field(..., ge=0) and the @validator of the three numeric fields
NonNegative(r) == IF r.ok /\ r.value.n < 0 THEN Invalid ELSE r

\* One field: looked up by alias, then by field name
\* (allow_population_by_field_name); a missing required field is an error,
\* a missing optional field takes its default.
ValidateField(f, body) ==
    LET present == Has(body, f.alias) \/ Has(body, f.name)
        given == IF Has(body, f.alias) THEN Lookup(body, f.alias) ELSE Lookup(body, f.name)
    IN  IF ~present
        THEN IF f.required THEN Invalid ELSE Valid(Str(f.default))
        ELSE IF f.type = "str"
             THEN CoerceStr(given)
             ELSE NonNegative(CoerceNumber(given))

\* the names a body may use for a field of LeadScoringRequest: its alias or,
\* with allow_population_by_field_name, its field name
SchemaNames ==
    { LeadScoringRequest[i].alias : i \in 1..Len(LeadScoringRequest) }
    \cup { LeadScoringRequest[i].name : i \in 1..Len(LeadScoringRequest) }

\* Config.extra = "forbid": a name the class does not know fails validation
ParseRequest_ForbidExtra(body) ==
    LET res == [i \in 1..Len(LeadScoringRequest) |-> ValidateField(LeadScoringRequest[i], body)]
    IN  [ok |-> /\ \A i \in 1..Len(res) : res[i].ok
                /\ \A k \in 1..Len(body) : body[k][1] \in SchemaNames,
         request_dict |-> [i \in 1..Len(res) |-> <<LeadScoringRequest[i].name, res[i].value>>]]

\* The parsed request: ok, and request.dict(by_alias=False) in declaration order
ParseRequest(body) ==
    LET res == [i \in 1..Len(LeadScoringRequest) |-> ValidateField(LeadScoringRequest[i], body)]
    IN  [ok |-> \A i \in 1..Len(res) : res[i].ok,
         request_dict |-> [i \in 1..Len(res) |-> <<LeadScoringRequest[i].name, res[i].value>>]]

(***************************************************************************)
(* prepare_features (main.py)                                              *)
(***************************************************************************)
\* for field_name, column_name in field_mapping.items():
\*     if field_name in request_dict: data_dict[column_name] = request_dict[field_name]
\* The columns of field_mapping are distinct, so every assignment inserts a
\* new key: data_dict holds the mapped fields in field_mapping order.
MapFields(request_dict) ==
    LET mapped == SelectSeq(field_mapping, LAMBDA fm : Has(request_dict, fm[1]))
    IN  [i \in 1..Len(mapped) |-> <<mapped[i][2], Lookup(request_dict, mapped[i][1])>>]

\* for col in EXPECTED_COLUMNS: if col not in data_dict: data_dict[col] = 'Not Specified'
FillMissing(data_dict) ==
    LET missing == SelectSeq(EXPECTED_COLUMNS, LAMBDA col : ~Has(data_dict, col))
    IN  data_dict \o [i \in 1..Len(missing) |-> <<missing[i], Str("Not Specified")>>]

\* df[columns]: the named columns of df, in the order named
SelectColumns(df, columns) == [i \in 1..Len(columns) |-> <<columns[i], Lookup(df, columns[i])>>]

prepare_features_NoReorder(request_dict) == FillMissing(MapFields(request_dict))

\* a frame kept between calls: after the first result the columns stay as inserted
prepare_features_KeptFrame(request_dict) ==
    IF served = 0
    THEN SelectColumns(FillMissing(MapFields(request_dict)), EXPECTED_COLUMNS)
    ELSE FillMissing(MapFields(request_dict))

prepare_features(request_dict) ==
    LET data_dict == FillMissing(MapFields(request_dict))
        df == data_dict
    IN  SelectColumns(df, EXPECTED_COLUMNS)

(***************************************************************************)
(* The frame built by safe_predict (app.py)                                *)
(***************************************************************************)
\* pd.to_numeric(errors='coerce'): a number stays, numeric text is parsed,
\* anything else (other text, None) becomes NaN
to_numeric(v) ==
    CASE v.kind = "num" -> v
      [] v.kind = "str" -> IF IsIntLiteral(v.s) THEN Num(ParseInt(v.s)) ELSE None
      [] OTHER -> None

fillna(v, z) == IF v.kind = "none" THEN Num(z) ELSE v

RECURSIVE HandleNumerical(_, _)
\* for col in numerical_cols: input_df[col] = pd.to_numeric(...).fillna(0)
HandleNumerical(input_df, i) ==
    IF i > Len(numerical_cols) THEN input_df
    ELSE HandleNumerical(
             DictSet(input_df, numerical_cols[i],
                     fillna(to_numeric(Lookup(input_df, numerical_cols[i])), 0)),
             i + 1)

\* data_for_df = {col: [input_data.get(col)] for col in EXPECTED_COLUMNS}
build_frame(input_data) ==
    LET data_for_df == [i \in 1..Len(APP_EXPECTED_COLUMNS) |->
                           <<APP_EXPECTED_COLUMNS[i], DictGet(input_data, APP_EXPECTED_COLUMNS[i])>>]
    IN  HandleNumerical(data_for_df, 1)


(***************************************************************************)
(* The requests of the model.                                              *)
(***************************************************************************)
RequiredNames ==
    { "TotalVisits", "Page Views Per Visit", "Total Time Spent on Website",
      "Lead Origin", "Lead Source", "Last Activity", "What is your current occupation" }

NumericNames == { numerical_cols[i] : i \in 1..Len(numerical_cols) }

OptionalNames == { EXPECTED_COLUMNS[i] : i \in 1..Len(EXPECTED_COLUMNS) } \ RequiredNames

\* the example request of the API documentation: the seven required attributes
BaseLead ==
    << <<"TotalVisits", Num(5)>>,
       <<"Page Views Per Visit", Num(5)>>,
       <<"Total Time Spent on Website", Num(1850)>>,
       <<"Lead Origin", Str("API")>>,
       <<"Lead Source", Str("Google")>>,
       <<"Last Activity", Str("Email Opened")>>,
       <<"What is your current occupation", Str("Working Professional")>> >>

\* the base request with every optional column supplied by the caller as well
FullLead ==
    LET optional == SelectSeq(EXPECTED_COLUMNS, LAMBDA col : col \in OptionalNames)
    IN  BaseLead \o [i \in 1..Len(optional) |-> <<optional[i], Str("Supplied")>>]

\* what a caller may put in a numeric attribute besides a good number:
\* a negative number, text that is no number; and zero or numeric text, which are fine
BadNumericInputs == { Num(-1), Str("abc") }
GoodNumericInputs == { Num(0), Str("5") }

\* the optional attributes the documentation gives as examples
ExampleOptionals == { "City", "Lead Quality" }

Leads ==
    { BaseLead, Reverse(BaseLead), FullLead, Reverse(FullLead) }
    \cup { DictSet(BaseLead, f, v) : f \in NumericNames, v \in BadNumericInputs }
    \cup { DictSet(BaseLead, "TotalVisits", v) : v \in GoodNumericInputs }
    \cup { DictDel(BaseLead, f) : f \in RequiredNames }
    \cup { DictSet(BaseLead, f, Str("Supplied")) : f \in ExampleOptionals }
    \cup { DictSet(BaseLead, "Referrer", Str("Supplied")) }
    \cup { DictSet(DictDel(BaseLead, "Lead Origin"), "Lead_Origin", Str("API")) }

(***************************************************************************)
(* The fitted artifacts are black boxes: what one request sees of them is  *)
(* either an exception raised by one of the three calls, or a class and a  *)
(* positive-class probability (in millionths).                             *)
(***************************************************************************)
ExcMsgs == { "could not convert", "shape mismatch" }
Classes == { Num(0), Num(1), Str("yes") }
Probas == { 0, 123456, 1000000 }

Raises(step, m) == [fail |-> step, msg |-> m, class |-> None, proba |-> 0]
Returns(c, p) == [fail |-> "", msg |-> "", class |-> c, proba |-> p]

RuntimeBehaviours ==
    { Raises(st, m) : st \in {"transform", "predict", "predict_proba"}, m \in ExcMsgs }
    \cup { Returns(c, p) : c \in Classes, p \in Probas }

\* how loading one artifact file can go
FileStates == { "ok", "missing", "corrupt" }

\* app.py: if len(prediction_history) > 10
HistoryCap == 10

NoResp ==
    [op |-> "", code |-> 0, prediction |-> None, lead_score |-> None, label |-> None,
     prediction_proba |-> None,
     error |-> <<>>, features |-> <<>>, calls |-> <<>>, body |-> <<>>,
     background_tasks |-> 0, status |-> "", model_loaded |-> FALSE,
     preprocessor_loaded |-> FALSE, predictions_count |-> 0]

Init ==
    /\ files = << "", "" >>
    /\ svc \in {"api", "app"}
    /\ phase = "init"
    /\ model = "None"
    /\ preprocessor = "None"
    /\ model_loaded = FALSE
    /\ preprocessor_loaded = FALSE
    /\ predictions_count = 0
    /\ tasks = <<>>
    /\ prediction_history = <<>>
    /\ served = 0
    /\ resp = NoResp

(***************************************************************************)
(* main.py: startup                                                        *)
(***************************************************************************)
\* The globals after the startup handler, given how the two files load.  A
\* missing file is logged and skipped; an exception from joblib.load leaves
\* the handler through the except clause, with what was assigned so far.
load_models_result_FlagsTogether(model_file, preprocessor_file) ==
    LET m_ok == model_file = "ok"
    IN  [model |-> IF m_ok THEN "loaded" ELSE "None",
         model_loaded |-> m_ok,
         preprocessor |-> IF m_ok THEN "loaded" ELSE "None",
         preprocessor_loaded |-> m_ok]

load_models_result(model_file, preprocessor_file) ==
    LET m_ok == model_file = "ok"
        reached == model_file # "corrupt"
        p_ok == reached /\ preprocessor_file = "ok"
    IN  [model |-> IF m_ok THEN "loaded" ELSE "None",
         model_loaded |-> m_ok,
         preprocessor |-> IF p_ok THEN "loaded" ELSE "None",
         preprocessor_loaded |-> p_ok]

load_models(model_file, preprocessor_file) ==
    /\ svc = "api"
    /\ phase = "init"
    /\ LET g == load_models_result(model_file, preprocessor_file)
       IN  /\ model' = g.model
           /\ model_loaded' = g.model_loaded
           /\ preprocessor' = g.preprocessor
           /\ preprocessor_loaded' = g.preprocessor_loaded
    /\ phase' = "serving"
    /\ files' = << model_file, preprocessor_file >>
    /\ UNCHANGED << svc, predictions_count, tasks, prediction_history, served, resp >>

(***************************************************************************)
(* main.py: POST /v2/predict                                               *)
(***************************************************************************)
\* round(x, 2) of a percentage held in millionths of a percent: to the
\* nearest multiple of 10000, ties to even
Round2(x) ==
    LET q == x \div 10000
        r == x % 10000
    IN  IF r > 5000 \/ (r = 5000 /\ q % 2 = 1) THEN (q + 1) * 10000 ELSE q * 10000

HTTPException(status_code, detail, calls, features_df) ==
    [NoResp EXCEPT !.op = "predict", !.code = status_code, !.error = detail,
                   !.calls = calls, !.features = features_df]

\* the 422 the framework answers when the body does not validate
RequestValidationError == [NoResp EXCEPT !.op = "predict", !.code = 422, !.error = <<"value_error">>]

Label_AlwaysConvert(prediction) == "Will Convert"

\* label = "Will Convert" if prediction == 1 else "Will Not Convert"
Label(prediction) == IF prediction = Num(1) THEN "Will Convert" ELSE "Will Not Convert"

\* The try block of the handler.  background_tasks is the number of tasks
\* added before the block returned or raised.
RunPrediction(request_dict, rt) ==
    LET features_df == prepare_features(request_dict)
        failed(m, calls) ==
            HTTPException(500, <<"Prediction failed: ", m>>, calls, features_df)
    IN  CASE rt.fail = "transform" ->
               failed(rt.msg, <<"prepare_features", "transform">>)
          [] rt.fail = "predict" ->
               failed(rt.msg, <<"prepare_features", "transform", "predict">>)
          [] rt.fail = "predict_proba" ->
               failed(rt.msg, <<"prepare_features", "transform", "predict", "predict_proba">>)
          [] OTHER ->
               LET calls == <<"prepare_features", "transform", "predict", "predict_proba">>
                   lead_score == rt.proba * 100
                   label == Label(rt.class)
               IN  IF rt.class.kind # "num"
                   THEN \* int(prediction) raises, after add_task
                        [failed("invalid literal for int()", calls)
                            EXCEPT !.background_tasks = 1,
                                   !.prediction_proba = Num(rt.proba)]
                   ELSE [NoResp EXCEPT !.op = "predict", !.code = 200,
                                       !.prediction = rt.class,
                                       !.prediction_proba = Num(rt.proba),
                                       !.lead_score = Num(Round2(lead_score)),
                                       !.label = Str(label),
                                       !.calls = calls,
                                       !.features = features_df,
                                       !.background_tasks = 1]

predict_lead_conversion_CheckBothMissing(request_dict, rt) ==
    IF ~model_loaded /\ ~preprocessor_loaded
    THEN HTTPException(503, <<"Models not loaded. Please check server logs.">>, <<>>, <<>>)
    ELSE RunPrediction(request_dict, rt)

\* The handler, for a request that validated
predict_lead_conversion(request_dict, rt) ==
    IF ~model_loaded \/ ~preprocessor_loaded
    THEN HTTPException(503, <<"Models not loaded. Please check server logs.">>, <<>>, <<>>)
    ELSE RunPrediction(request_dict, rt)

\* The tasks added by a handler are attached to the response it returned;
\* the tasks of a handler that raised are discarded.
TasksToRun(r) == IF r.code = 200 THEN r.background_tasks ELSE 0

api_predict(body, rt) ==
    /\ svc = "api"
    /\ phase = "serving"
    /\ resp = NoResp
    /\ LET parsed == ParseRequest(body)
           r == IF parsed.ok
                THEN predict_lead_conversion(parsed.request_dict, rt)
                ELSE RequestValidationError
       IN  /\ resp' = [r EXCEPT !.body = body, !.calls = <<"validate">> \o @]
           /\ served' = IF r.code = 200 THEN served + 1 ELSE served
           /\ tasks' = IF TasksToRun(r) = 1
                       THEN Append(tasks, [pc |-> "added", tmp |-> 0])
                       ELSE tasks
    /\ UNCHANGED << svc, files, phase, model, preprocessor, model_loaded, preprocessor_loaded,
                    predictions_count, prediction_history >>

(***************************************************************************)
(* main.py: increment_predictions_count, run on a thread-pool thread.      *)
(* predictions_count += 1 is a load of the global followed by a store;     *)
(* the interpreter may switch threads in between.                          *)
(***************************************************************************)
increment_load(t) ==
    /\ t \in 1..Len(tasks)
    /\ tasks[t].pc = "scheduled"
    /\ tasks' = [tasks EXCEPT ![t] = [pc |-> "loaded", tmp |-> predictions_count]]
    /\ UNCHANGED << svc, files, phase, model, preprocessor, model_loaded, preprocessor_loaded,
                    predictions_count, prediction_history, served, resp >>

IncrementedTwice(tmp) == tmp + 2

Incremented(tmp) == tmp + 1

increment_store(t) ==
    /\ t \in 1..Len(tasks)
    /\ tasks[t].pc = "loaded"
    /\ predictions_count' = Incremented(tasks[t].tmp)
    /\ tasks' = [tasks EXCEPT ![t].pc = "done"]
    /\ UNCHANGED << svc, files, phase, model, preprocessor, model_loaded, preprocessor_loaded,
                    prediction_history, served, resp >>

(***************************************************************************)
(* main.py: GET /v2/health, GET /v2/models/info, GET /                     *)
(***************************************************************************)
health_status == IF model_loaded /\ preprocessor_loaded THEN "healthy" ELSE "degraded"

health_check ==
    [NoResp EXCEPT !.op = "health", !.code = 200, !.status = health_status,
                   !.model_loaded = model_loaded,
                   !.preprocessor_loaded = preprocessor_loaded,
                   !.predictions_count = predictions_count]

api_health_Reloading ==
    /\ svc = "api"
    /\ phase = "serving"
    /\ resp = NoResp
    /\ resp' = health_check
    /\ model' = "loaded"
    /\ model_loaded' = TRUE
    /\ preprocessor' = "loaded"
    /\ preprocessor_loaded' = TRUE
    /\ UNCHANGED << svc, files, phase, predictions_count, tasks, prediction_history, served >>

api_health ==
    /\ svc = "api"
    /\ phase = "serving"
    /\ resp = NoResp
    /\ resp' = health_check
    /\ UNCHANGED << svc, files, phase, model, preprocessor, model_loaded, preprocessor_loaded,
                    predictions_count, tasks, prediction_history, served >>

get_model_info ==
    [NoResp EXCEPT !.op = "info", !.code = 200,
                   !.model_loaded = model_loaded,
                   !.preprocessor_loaded = preprocessor_loaded,
                   !.features = [i \in 1..Len(EXPECTED_COLUMNS) |-> <<EXPECTED_COLUMNS[i], None>>]]

api_model_info_DroppingModel ==
    /\ svc = "api"
    /\ phase = "serving"
    /\ resp = NoResp
    /\ resp' = get_model_info
    /\ model' = "None"
    /\ UNCHANGED << svc, files, phase, preprocessor, model_loaded, preprocessor_loaded,
                    predictions_count, tasks, prediction_history, served >>

api_model_info ==
    /\ svc = "api"
    /\ phase = "serving"
    /\ resp = NoResp
    /\ resp' = get_model_info
    /\ UNCHANGED << svc, files, phase, model, preprocessor, model_loaded, preprocessor_loaded,
                    predictions_count, tasks, prediction_history, served >>

api_root ==
    /\ svc = "api"
    /\ phase = "serving"
    /\ resp = NoResp
    /\ resp' = [NoResp EXCEPT !.op = "root", !.code = 200, !.status = "running"]
    /\ UNCHANGED << svc, files, phase, model, preprocessor, model_loaded, preprocessor_loaded,
                    predictions_count, tasks, prediction_history, served >>

(***************************************************************************)
(* app.py: module initialisation                                           *)
(***************************************************************************)
\* load_model_assets(): its return value.  Inside the call the global model
\* may already have been assigned when loading the preprocessor fails; the
\* except clauses return (None, None).
\* the except clauses returning the globals as the try block left them
load_model_assets_ReturningGlobals(model_file, preprocessor_file) ==
    << IF model_file = "ok" THEN "loaded" ELSE "None",
       IF model_file = "ok" /\ preprocessor_file = "ok" THEN "loaded" ELSE "None" >>

load_model_assets(model_file, preprocessor_file) ==
    IF model_file = "ok" /\ preprocessor_file = "ok"
    THEN << "loaded", "loaded" >>
    ELSE << "None", "None" >>

\* model, preprocessor = load_model_assets()
app_startup(model_file, preprocessor_file) ==
    /\ svc = "app"
    /\ phase = "init"
    /\ LET assets == load_model_assets(model_file, preprocessor_file)
       IN  /\ model' = assets[1]
           /\ preprocessor' = assets[2]
    /\ phase' = "serving"
    /\ files' = << model_file, preprocessor_file >>
    /\ UNCHANGED << svc, model_loaded, preprocessor_loaded, predictions_count, tasks,
                    prediction_history, served, resp >>

(***************************************************************************)
(* app.py: safe_predict and the index route                                *)
(***************************************************************************)
\* request.form.to_dict(): every value of a submitted form is text
FormValue(v) == IF v.kind = "num" THEN Str(FormatInt(v.n)) ELSE v
to_dict(body) == [i \in 1..Len(body) |-> <<body[i][1], FormValue(body[i][2])>>]

SafeResult_DefaultScore(p, sc, err, calls, df) ==
    [NoResp EXCEPT !.op = "predict", !.code = 200, !.prediction = p,
                   !.lead_score = IF sc = None THEN Num(0) ELSE sc,
                   !.error = err, !.calls = calls, !.features = df]

SafeResult(p, sc, err, calls, df) ==
    [NoResp EXCEPT !.op = "predict", !.code = 200, !.prediction = p, !.lead_score = sc,
                   !.error = err, !.calls = calls, !.features = df]

safe_predict(input_data, rt) ==
    IF model = "None" \/ preprocessor = "None"
    THEN SafeResult(None, None, <<"Model not loaded">>, <<>>, <<>>)
    ELSE LET input_df == build_frame(input_data)
             failed(m, calls) ==
                 SafeResult(None, None, <<"Prediction failed: ", m>>, calls, input_df)
         IN  CASE rt.fail = "transform" ->
                    failed(rt.msg, <<"build_frame", "transform">>)
               [] rt.fail = "predict" ->
                    failed(rt.msg, <<"build_frame", "transform", "predict">>)
               [] rt.fail = "predict_proba" ->
                    failed(rt.msg, <<"build_frame", "transform", "predict", "predict_proba">>)
               [] OTHER ->
                    LET calls == <<"build_frame", "transform", "predict", "predict_proba">>
                        lead_score == rt.proba * 100
                    IN  IF rt.class.kind # "num"
                        THEN [failed("invalid literal for int()", calls)
                                 EXCEPT !.prediction_proba = Num(rt.proba)]
                        ELSE [SafeResult(rt.class, Num(lead_score), <<>>, calls, input_df)
                                 EXCEPT !.prediction_proba = Num(rt.proba)]

\* append(...) and pop(0): the newest entry last
Remember_Appending(history, entry) ==
    LET grown == history \o << entry >>
    IN  IF Len(grown) > HistoryCap THEN SubSeq(grown, 2, Len(grown)) ELSE grown

\* prediction_history.insert(0, ...); if len(prediction_history) > 10: pop()
Remember(history, entry) ==
    LET grown == << entry >> \o history
    IN  IF Len(grown) > HistoryCap THEN SubSeq(grown, 1, Len(grown) - 1) ELSE grown

ShouldStore_Always(prediction_result, error_message) == TRUE

\* if prediction_result is not None and error_message is None
ShouldStore(prediction_result, error_message) ==
    prediction_result # None /\ error_message = <<>>

app_index_post(body, rt) ==
    /\ svc = "app"
    /\ phase = "serving"
    /\ resp = NoResp
    /\ LET form_data == to_dict(body)
           r == safe_predict(form_data, rt)
           stored == ShouldStore(r.prediction, r.error)
       IN  /\ prediction_history' =
                  IF stored
                  THEN Remember(prediction_history,
                                [inputs |-> form_data, prediction |-> r.prediction,
                                 score |-> r.lead_score])
                  ELSE prediction_history
           /\ served' = IF stored THEN served + 1 ELSE served
           /\ resp' = [r EXCEPT !.body = body,
                                !.model_loaded = (model # "None" /\ preprocessor # "None")]
    /\ UNCHANGED << svc, files, phase, model, preprocessor, model_loaded, preprocessor_loaded,
                    predictions_count, tasks >>

app_index_get ==
    /\ svc = "app"
    /\ phase = "serving"
    /\ resp = NoResp
    /\ resp' = [NoResp EXCEPT !.op = "index", !.code = 200,
                              !.model_loaded = (model # "None" /\ preprocessor # "None")]
    /\ UNCHANGED << svc, files, phase, model, preprocessor, model_loaded, preprocessor_loaded,
                    predictions_count, tasks, prediction_history, served >>

(***************************************************************************)
(* app.py: GET /health                                                     *)
(***************************************************************************)
app_health_check ==
    [NoResp EXCEPT !.op = "health", !.code = 200, !.status = "healthy",
                   !.model_loaded = (model # "None"),
                   !.preprocessor_loaded = (preprocessor # "None"),
                   !.predictions_count = Len(prediction_history)]

app_health ==
    /\ svc = "app"
    /\ phase = "serving"
    /\ resp = NoResp
    /\ resp' = app_health_check
    /\ UNCHANGED << svc, files, phase, model, preprocessor, model_loaded, preprocessor_loaded,
                    predictions_count, tasks, prediction_history, served >>

(***************************************************************************)
(* The response of a handler is in flight (resp) until the server has sent *)
(* it; the tasks the handler added are then handed to the thread pool and  *)
(* the serving thread takes the next request.                              *)
(***************************************************************************)
send_response ==
    /\ resp # NoResp
    /\ resp' = NoResp
    /\ tasks' = [t \in 1..Len(tasks) |->
                    IF tasks[t].pc = "added" THEN [tasks[t] EXCEPT !.pc = "scheduled"]
                    ELSE tasks[t]]
    /\ UNCHANGED << svc, files, phase, model, preprocessor, model_loaded, preprocessor_loaded,
                    predictions_count, prediction_history, served >>

(***************************************************************************)
(* Specification                                                           *)
(***************************************************************************)
Next ==
    \/ \E mf \in FileStates, pf \in FileStates : load_models(mf, pf)
    \/ \E body \in Leads, rt \in RuntimeBehaviours :
            served < MaxPredictions /\ api_predict(body, rt)
    \/ \E t \in 1..MaxPredictions : increment_load(t)
    \/ \E t \in 1..MaxPredictions : increment_store(t)
    \/ api_health
    \/ api_model_info
    \/ api_root
    \/ \E mf \in FileStates, pf \in FileStates : app_startup(mf, pf)
    \/ \E body \in Leads, rt \in RuntimeBehaviours :
            served < MaxPosts /\ app_index_post(body, rt)
    \/ app_index_get
    \/ app_health
    \/ send_response

Spec == Init /\ [][Next]_vars

(***************************************************************************)
(* Sustained load: one process that serves many requests for the same lead *)
(* (the FastAPI variant with overlapping background increments, the Flask  *)
(* variant past the capacity of its history).                              *)
(***************************************************************************)
SustainedBehaviours ==
    { Returns(Num(0), 0), Returns(Num(1), 1000000), Raises("predict", "shape mismatch") }

NextSustained ==
    \/ load_models("ok", "ok")
    \/ \E rt \in SustainedBehaviours : served < MaxOverlap /\ api_predict(BaseLead, rt)
    \/ \E t \in 1..MaxOverlap : increment_load(t)
    \/ \E t \in 1..MaxOverlap : increment_store(t)
    \/ api_health
    \/ \E pf \in FileStates : app_startup("ok", pf)
    \/ \E rt \in SustainedBehaviours : served < MaxSubmissions /\ app_index_post(BaseLead, rt)
    \/ app_index_get
    \/ app_health
    \/ send_response

SpecSustained == Init /\ [][NextSustained]_vars

(***************************************************************************)
(* Vocabulary of the properties.                                           *)
(***************************************************************************)
\* the runtime is ready: both artifacts loaded, as each variant tests it
Ready ==
    IF svc = "api"
    THEN model_loaded /\ preprocessor_loaded
    ELSE model # "None" /\ preprocessor # "None"

\* how a predict request ended, in the terms of the error taxonomy
Outcome(r) ==
    IF svc = "api"
    THEN CASE r.code = 200 -> "Success"
           [] r.code = 422 -> "ValidationError"
           [] r.code = 503 -> "ServiceUnavailable"
           [] OTHER -> "InferenceError"
    ELSE CASE r.error = <<>> /\ r.prediction # None -> "Success"
           [] r.error = <<"Model not loaded">> -> "ServiceUnavailable"
           [] OTHER -> "InferenceError"

PredictAnswered == resp.op = "predict"

\* the handler got as far as building a feature record / calling the runtime
RuntimeCalls == { "transform", "predict", "predict_proba" }
Called(r) == { r.calls[i] : i \in 1..Len(r.calls) }
ReachedRuntime(r) == Called(r) \cap RuntimeCalls # {}
Normalized(r) == r.features # <<>> \/ Called(r) \cap {"prepare_features", "build_frame"} # {}

\* the request as sent: does it name the attribute (by its column name or,
\* for the API, by the field name of the request class)
FieldOf(col) ==
    LeadScoringRequest[CHOOSE i \in 1..Len(LeadScoringRequest) : LeadScoringRequest[i].alias = col]
Supplies(body, col) == Has(body, col) \/ Has(body, FieldOf(col).name)
Supplied(body, col) ==
    IF Has(body, col) THEN Lookup(body, col) ELSE Lookup(body, FieldOf(col).name)

IsNumber(v) == v.kind = "num" \/ (v.kind = "str" /\ IsIntLiteral(v.s))
NumberOf(v) == IF v.kind = "num" THEN v.n ELSE ParseInt(v.s)

HasNegative(body) ==
    \E f \in NumericNames : Has(body, f) /\ IsNumber(Lookup(body, f)) /\ NumberOf(Lookup(body, f)) < 0
HasUncoercible(body) ==
    \E f \in NumericNames : Has(body, f) /\ ~IsNumber(Lookup(body, f))
OmitsRequired(body) == \E f \in RequiredNames : ~Supplies(body, f)

(***************************************************************************)
(* C1.  Claim: whenever the runtime is not ready, every predict call, for  *)
(* every input including an invalid one, fails with ServiceUnavailable,    *)
(* and neither validation/normalization nor transform nor predict is       *)
(* attempted for that call.                                                *)
(***************************************************************************)
\* C1 as claimed
C1_NotReadyAlwaysUnavailable ==
    (PredictAnswered /\ ~Ready) =>
        /\ Outcome(resp) = "ServiceUnavailable"
        /\ ~Normalized(resp)
        /\ ~ReachedRuntime(resp)

\* C1 as amended: whenever the runtime is not ready, no predict call succeeds
\* and none reaches normalization (prepare_features / the frame), transform,
\* predict or predict_proba.  A call whose body passes request validation
\* fails with ServiceUnavailable.  The FastAPI variant validates the body
\* before the handler runs and answers an invalid body with ValidationError;
\* the Flask variant validates nothing and answers every call with
\* ServiceUnavailable.
C1_NotReadyNeverServed ==
    (PredictAnswered /\ ~Ready) =>
        /\ ~ReachedRuntime(resp)
        /\ ~Normalized(resp)
        /\ resp.prediction = None /\ resp.lead_score = None
        /\ Outcome(resp) \in {"ServiceUnavailable", "ValidationError"}
        /\ Outcome(resp) = "ValidationError" <=>
               (svc = "api" /\ ~ParseRequest(resp.body).ok)

\* an invalid body answered 422 by the FastAPI variant while only the model is loaded
C1_Witness ==
    /\ PredictAnswered /\ svc = "api"
    /\ model_loaded /\ ~preprocessor_loaded
    /\ HasNegative(resp.body)
    /\ resp.code = 422

(***************************************************************************)
(* C2.  Claim: in every reachable state the health query reports "healthy" *)
(* if and only if both the classifier and the preprocessor are loaded, and *)
(* "degraded" otherwise; for the health endpoint of both variants.         *)
(***************************************************************************)
C2_HealthyIffReady ==
    resp.op = "health" =>
        /\ resp.status = "healthy" <=> Ready
        /\ ~Ready => resp.status = "degraded"

(***************************************************************************)
(* C3.  The prediction counter is incremented only after a successful      *)
(* prediction and at most once per successful prediction: the counter      *)
(* never exceeds the number of predict requests answered successfully, and *)
(* a request that failed leaves no increment behind.                       *)
(***************************************************************************)
Finished == { t \in 1..Len(tasks) : tasks[t].pc = "done" }

C3_CountedOnlyAfterSuccess ==
    svc = "api" =>
        /\ predictions_count <= served
        /\ predictions_count <= Cardinality(Finished)
        /\ Len(tasks) = served
        /\ (PredictAnswered /\ resp.code # 200) =>
               \A t \in 1..Len(tasks) : tasks[t].pc # "added"

\* a request failed after it had added its task, and the one earlier success is counted
C3_Witness ==
    /\ svc = "api" /\ PredictAnswered
    /\ resp.code = 500 /\ resp.background_tasks = 1
    /\ served = 1 /\ predictions_count = 1

(***************************************************************************)
(* C4.  Claim: N successful predictions processed concurrently increase    *)
(* the counter by exactly N; no interleaving of the increments loses an    *)
(* update.                                                                 *)
(***************************************************************************)
AllIncrementsRun == \A t \in 1..Len(tasks) : tasks[t].pc = "done"

C4_NoLostUpdate ==
    (svc = "api" /\ AllIncrementsRun) => predictions_count = served

(***************************************************************************)
(* C5.  Claim: every successful prediction is eventually counted: once all *)
(* scheduled background increments have run, the counter reported by       *)
(* health has grown by at least the number of successful predictions; no   *)
(* increment is dropped.                                                   *)
(***************************************************************************)
\* a health query answered when no increment is pending reports every success
C5_HealthCountsEverySuccess ==
    [][ (svc = "api" /\ AllIncrementsRun /\ resp = NoResp /\ resp'.op = "health")
            => resp'.predictions_count >= served ]_vars

(***************************************************************************)
(* C6.  Claim: a request with a negative TotalVisits, Page Views Per Visit *)
(* or Total Time Spent on Website is rejected with ValidationError, never  *)
(* answered with a result, and transform and predict are not invoked for   *)
(* it; in both variants.                                                   *)
(***************************************************************************)
C6_NegativeRejected ==
    (PredictAnswered /\ HasNegative(resp.body)) =>
        /\ Outcome(resp) # "Success"
        /\ ~ReachedRuntime(resp)
        /\ Ready => Outcome(resp) = "ValidationError"

(***************************************************************************)
(* C7.  Claim: a request that omits any of the seven required attributes   *)
(* fails with ValidationError; no default is substituted and no feature    *)
(* record is passed to the model.                                          *)
(***************************************************************************)
C7_MissingRequiredRejected ==
    (PredictAnswered /\ OmitsRequired(resp.body)) =>
        /\ resp.features = <<>>
        /\ ~ReachedRuntime(resp)
        /\ Ready => Outcome(resp) = "ValidationError"

(***************************************************************************)
(* C8.  Claim: a numeric attribute whose value cannot be coerced to a      *)
(* number is a validation failure; the normalizer never replaces it with 0 *)
(* and proceeds to the model.                                              *)
(***************************************************************************)
C8_UncoercibleRejected ==
    (PredictAnswered /\ HasUncoercible(resp.body)) =>
        /\ \A f \in NumericNames :
               (Has(resp.body, f) /\ ~IsNumber(Lookup(resp.body, f)) /\ Has(resp.features, f))
                   => Lookup(resp.features, f) # Num(0)
        /\ ~ReachedRuntime(resp)
        /\ Ready => Outcome(resp) = "ValidationError"

(***************************************************************************)
(* C9.  For every accepted request the feature record handed to            *)
(* preprocessor.transform has exactly the 22 EXPECTED_COLUMNS, each once,  *)
(* in EXPECTED_COLUMNS order, whatever the order in which the caller       *)
(* supplied the attributes.                                                *)
(***************************************************************************)
C9_FeatureOrder ==
    (PredictAnswered /\ ReachedRuntime(resp)) =>
        /\ Len(resp.features) = 22
        /\ Cardinality({ resp.features[i][1] : i \in 1..Len(resp.features) }) = 22
        /\ Keys(resp.features) = EXPECTED_COLUMNS
        /\ resp.features =
               IF svc = "api"
               THEN prepare_features(ParseRequest(Reverse(resp.body)).request_dict)
               ELSE build_frame(to_dict(Reverse(resp.body)))

\* both variants have served a request that listed all attributes in reverse order
C9_Witness ==
    /\ PredictAnswered /\ Outcome(resp) = "Success"
    /\ resp.body = Reverse(FullLead)
    /\ Keys(resp.body) # Keys(resp.features)
    /\ "transform" \in Called(resp)

(***************************************************************************)
(* C10.  Claim: for every optional categorical attribute, omitting it      *)
(* yields its documented default in the feature record passed to the       *)
(* runtime, and a supplied value is passed through unchanged; in both      *)
(* variants.                                                               *)
(***************************************************************************)
C10_DefaultsFilled ==
    (PredictAnswered /\ ReachedRuntime(resp)) =>
        \A f \in OptionalNames :
            Lookup(resp.features, f) =
                IF Supplies(resp.body, f) THEN Supplied(resp.body, f)
                ELSE Str(FieldOf(f).default)

(***************************************************************************)
(* C11.  In every successful PredictionResult, prediction is 0 or 1 and    *)
(* label is "Will Convert" exactly when prediction is 1 and "Will Not      *)
(* Convert" exactly when prediction is 0.  The classes are those of the    *)
(* binary classifier; a class that int() does not accept ends the request  *)
(* with an error, not with a result.                                       *)
(***************************************************************************)
C11_LabelMatchesPrediction ==
    (PredictAnswered /\ Outcome(resp) = "Success") =>
        /\ resp.prediction \in { Num(0), Num(1) }
        /\ svc = "api" =>
               /\ resp.label \in { Str("Will Convert"), Str("Will Not Convert") }
               /\ resp.label = Str("Will Convert") <=> resp.prediction = Num(1)
               /\ resp.label = Str("Will Not Convert") <=> resp.prediction = Num(0)

\* the FastAPI variant answered class 0 with "Will Not Convert"
C11_Witness ==
    /\ svc = "api" /\ PredictAnswered /\ resp.code = 200
    /\ resp.prediction = Num(0)
    /\ resp.label = Str("Will Not Convert")

(***************************************************************************)
(* C12.  Claim: in every successful PredictionResult, lead_score equals    *)
(* the positive-class probability (index 1 of predict_proba) times 100,    *)
(* rounded to 2 decimal places, and lies in [0,100] whenever that          *)
(* probability lies in [0,1]; for the score returned by both variants.     *)
(* Scores are held in millionths of a percent.                             *)
(***************************************************************************)
C12_ScoreRounded ==
    (PredictAnswered /\ Outcome(resp) = "Success") =>
        LET probability == resp.prediction_proba.n
        IN  /\ resp.lead_score = Num(Round2(probability * 100))
            /\ (0 <= probability /\ probability <= 1000000) =>
                   (0 <= resp.lead_score.n /\ resp.lead_score.n <= 100 * 1000000)

(***************************************************************************)
(* C13.  When exactly one of the two artifacts loads at startup (one file  *)
(* present, the other missing or failing to load), the process keeps       *)
(* running, the runtime is not ready, and every subsequent predict request *)
(* is refused rather than served.                                          *)
(***************************************************************************)
ExactlyOneFileLoads == (files[1] = "ok") # (files[2] = "ok")

C13_PartialLoadNeverServes ==
    (phase = "serving" /\ ExactlyOneFileLoads) =>
        /\ ~Ready
        /\ served = 0
        /\ prediction_history = <<>>
        /\ PredictAnswered =>
               /\ Outcome(resp) \in { "ServiceUnavailable", "ValidationError" }
               /\ resp.prediction = None /\ resp.lead_score = None
               /\ ~ReachedRuntime(resp)

\* the model loaded, the preprocessor file did not, and a valid request was
\* answered 503 by the running service
C13_Witness ==
    /\ svc = "api" /\ phase = "serving"
    /\ files[1] = "ok" /\ files[2] \in { "missing", "corrupt" }
    /\ model_loaded /\ ~preprocessor_loaded
    /\ PredictAnswered /\ resp.body = BaseLead
    /\ resp.code = 503

(***************************************************************************)
(* C14.  Artifact loading is attempted once at startup and never retried:  *)
(* if the startup load leaves the runtime not ready, then after any        *)
(* sequence of predict and health requests the runtime is still not ready  *)
(* for the rest of the process lifetime.                                   *)
(***************************************************************************)
C14_NotReadyForever ==
    [][ (phase = "serving" /\ ~Ready) =>
            /\ ~Ready'
            /\ phase' = "serving"
            /\ files' = files ]_vars

\* a service that started without its preprocessor answers a health query
\* after the startup load, still not ready
C14_Witness ==
    /\ svc = "api" /\ phase = "serving"
    /\ files = << "ok", "missing" >>
    /\ ~Ready
    /\ resp.op = "health" /\ resp.status = "degraded"

(***************************************************************************)
(* C15.  After initialization, no predict, health or model-info request    *)
(* changes the model handle, the preprocessor handle or either loaded      *)
(* flag: these are left unchanged by every post-startup operation.         *)
(***************************************************************************)
C15_HandlesReadOnly ==
    [][ phase = "serving" =>
            UNCHANGED << model, preprocessor, model_loaded, preprocessor_loaded >> ]_vars

\* a model-info query answered by a ready service whose background increment
\* has run: the handles are as the startup load left them
C15_Witness ==
    /\ svc = "api" /\ phase = "serving"
    /\ model = "loaded" /\ preprocessor = "loaded"
    /\ model_loaded /\ preprocessor_loaded
    /\ predictions_count = 1
    /\ resp.op = "info"

(***************************************************************************)
(* C16.  Claim: the prediction counter never decreases and is never reset: *)
(* across any sequence of requests, each observed value of                 *)
(* predictions_count is greater than or equal to every earlier observed    *)
(* value.                                                                  *)
(***************************************************************************)
C16_CounterMonotonic ==
    [][ svc = "api" => predictions_count' >= predictions_count ]_vars

(***************************************************************************)
(* C17.  Claim: the predictions_count field returned by the health query   *)
(* is a snapshot of the prediction counter, i.e. of the number of          *)
(* successful predictions served so far (also after more than 10           *)
(* predictions); for the health endpoint of both variants.  The FastAPI    *)
(* variant keeps a counter; the Flask variant has none, and the number of  *)
(* its successful predictions is served.                                   *)
(***************************************************************************)
C17_HealthReportsCounter ==
    [][ (resp = NoResp /\ resp'.op = "health") =>
            /\ svc = "api" => resp'.predictions_count = predictions_count
            /\ svc = "app" => resp'.predictions_count = served ]_vars

(***************************************************************************)
(* C18.  Claim: when transform or predict raises, the caller receives a    *)
(* single generic InferenceError whose content does not depend on the      *)
(* internal exception: two runs that differ only in the internal exception *)
(* message produce the same caller-visible response.                       *)
(***************************************************************************)
\* the answer of the service, in the current state, to a predict request
Answer(body, rt) ==
    IF svc = "api"
    THEN predict_lead_conversion(ParseRequest(body).request_dict, rt)
    ELSE safe_predict(to_dict(body), rt)

\* what the caller sees of an answer
Visible(r) == [code |-> r.code, prediction |-> r.prediction, lead_score |-> r.lead_score,
               label |-> r.label, error |-> r.error]

FailedStep(r) == r.calls[Len(r.calls)]

\* the run that differs from the answered one only in the message of the
\* exception raised by that step is answered the same
C18_ErrorHidesException ==
    (PredictAnswered /\ Outcome(resp) = "InferenceError"
                     /\ FailedStep(resp) \in { "transform", "predict" }) =>
        \A m \in ExcMsgs :
            Visible(Answer(resp.body, Raises(FailedStep(resp), m))) = Visible(resp)

(***************************************************************************)
(* C19.  Every predict call ends in exactly one of two shapes: a complete  *)
(* result (prediction, score and label all set, no error) or an error with *)
(* no result fields set.  A failure at any step of transform / predict /   *)
(* response shaping is caught at the service boundary and never yields a   *)
(* partially filled result; in the Flask variant safe_predict never raises *)
(* and returns either (prediction, score, None) or (None, None, message).  *)
(* The label of the Flask variant is rendered by its template and is not   *)
(* part of what safe_predict returns.                                      *)
(***************************************************************************)
CompleteResult(r) ==
    /\ r.error = <<>>
    /\ r.prediction.kind = "num"
    /\ r.lead_score.kind = "num"
    /\ svc = "api" => (r.code = 200 /\ r.label.kind = "str")

ErrorOnly(r) ==
    /\ r.error # <<>>
    /\ r.prediction = None /\ r.lead_score = None /\ r.label = None
    /\ svc = "api" => r.code \in { 422, 500, 503 }

C19_ResultOrError ==
    PredictAnswered =>
        /\ CompleteResult(resp) # ErrorOnly(resp)
        /\ svc = "app" => resp.code = 200

\* response shaping failed (int() of the class) after predict_proba had
\* returned: safe_predict returned (None, None, message)
C19_Witness ==
    /\ svc = "app" /\ PredictAnswered
    /\ resp.calls # <<>> /\ FailedStep(resp) = "predict_proba"
    /\ resp.prediction_proba # None
    /\ ErrorOnly(resp)

(***************************************************************************)
(* C20.  Normalization is a pure function of the request: normalizing the  *)
(* same raw attributes twice yields identical feature records, and         *)
(* normalization changes no shared state (counter, loaded flags, history). *)
(* Stated of prepare_features: the record a request was answered from is   *)
(* the record prepare_features yields for the same attributes in every     *)
(* later state of the service, and the step that normalized left the       *)
(* counter, the handles, the flags and the history alone.                  *)
(***************************************************************************)
\* in whatever state the service is, the record a request was answered from
\* is the record prepare_features yields for its attributes
SameRecordInEveryState ==
    (svc = "api" /\ PredictAnswered /\ Normalized(resp)) =>
        resp.features = prepare_features(ParseRequest(resp.body).request_dict)

KnownName(nm) ==
    IF svc = "api"
    THEN nm \in SchemaNames
    ELSE \E i \in 1..Len(APP_EXPECTED_COLUMNS) : APP_EXPECTED_COLUMNS[i] = nm

HasUnknown(body) == \E k \in 1..Len(body) : ~KnownName(body[k][1])
\* the request that differs from body only in lacking its unknown fields
WithoutUnknown(body) == SelectSeq(body, LAMBDA kv : KnownName(kv[1]))

\* the answer of the service, in the current state, to a POST of body
AnswerTo(body, rt) ==
    IF svc = "api"
    THEN IF ParseRequest(body).ok
         THEN predict_lead_conversion(ParseRequest(body).request_dict, rt)
         ELSE RequestValidationError
    ELSE safe_predict(to_dict(body), rt)

C21_UnknownFieldsIgnored ==
    (PredictAnswered /\ HasUnknown(resp.body)) =>
        /\ \A k \in 1..Len(resp.features) : resp.features[k][1] \in SchemaNames
        /\ \A rt \in RuntimeBehaviours :
               LET with == AnswerTo(resp.body, rt)
                   without == AnswerTo(WithoutUnknown(resp.body), rt)
               IN  /\ Visible(with) = Visible(without)
                   /\ with.features = without.features
                   /\ with.calls = without.calls
        /\ \E rt \in RuntimeBehaviours :
               LET without == AnswerTo(WithoutUnknown(resp.body), rt)
               IN  /\ Visible(resp) = Visible(without)
                   /\ resp.features = without.features

\* a request carrying a field the schema does not know was served, from a
\* feature record without that field
C21_Witness ==
    /\ PredictAnswered /\ Outcome(resp) = "Success"
    /\ Has(resp.body, "Referrer")
    /\ Len(resp.features) = 22 /\ ~Has(resp.features, "Referrer")

(***************************************************************************)
(* C22.  The dashboard prediction history is a bounded most-recent-first   *)
(* buffer: after every completed request it holds at most 10 entries, the  *)
(* entry at index 0 is the most recent successful prediction, entries are  *)
(* in reverse order of arrival, and when an 11th entry is inserted the     *)
(* oldest one is the one evicted.                                          *)
(***************************************************************************)
\* the entry of the prediction a response reports
EntryOf(r) == [inputs |-> to_dict(r.body), prediction |-> r.prediction, score |-> r.lead_score]

\* a step that changes the history puts the prediction it answered first and
\* moves every earlier entry one place down, the one in the last of 10
\* places (the oldest) out
HistoryShifts ==
    (svc = "app" /\ prediction_history' # prediction_history) =>
        /\ resp'.op = "predict" /\ resp'.error = <<>>
        /\ prediction_history'[1] = EntryOf(resp')
        /\ Len(prediction_history') =
               IF Len(prediction_history) < HistoryCap
               THEN Len(prediction_history) + 1 ELSE HistoryCap
        /\ \A i \in 2..Len(prediction_history') :
               prediction_history'[i] = prediction_history[i - 1]

C22_HistoryBounded ==
    /\ [](Len(prediction_history) <= HistoryCap)
    /\ [](svc = "app" /\ PredictAnswered /\ resp.error = <<>>
              => prediction_history[1] = EntryOf(resp))
    /\ [][HistoryShifts]_vars

\* the 11th successful submission has been stored: the history still holds
\* 10 entries and the newest is first
C22_Witness ==
    /\ svc = "app" /\ PredictAnswered
    /\ served = 11
    /\ Len(prediction_history) = HistoryCap
    /\ prediction_history[1] = EntryOf(resp)
    /\ prediction_history[1] # prediction_history[2]

(***************************************************************************)
(* C23.  Only a successful POST changes the dashboard history: a GET       *)
(* request, or a POST whose safe_predict returns an error (model not       *)
(* loaded or prediction failure), leaves prediction_history unchanged, and *)
(* a successful POST adds exactly one entry.                               *)
(***************************************************************************)
C23_OnlySuccessStores ==
    [][ svc = "app" =>
          /\ prediction_history' # prediction_history =>
                 (resp = NoResp /\ resp'.op = "predict" /\ Outcome(resp') = "Success")
          /\ (resp = NoResp /\ resp'.op = "index") => UNCHANGED prediction_history
          /\ (resp = NoResp /\ resp'.op = "predict" /\ resp'.error # <<>>) =>
                 UNCHANGED prediction_history
          /\ (resp = NoResp /\ resp'.op = "predict" /\ resp'.error = <<>>) =>
                 /\ prediction_history' # <<>>
                 /\ resp'.prediction = prediction_history'[1].prediction
                 /\ resp'.lead_score = prediction_history'[1].score
                 /\ Tail(prediction_history') =
                        SubSeq(prediction_history, 1, Len(prediction_history') - 1)
                 /\ Len(prediction_history) < HistoryCap =>
                        Len(prediction_history') = Len(prediction_history) + 1 ]_vars

\* a POST whose prediction failed was answered after an earlier success had
\* been stored: the history holds that one entry
C23_Witness ==
    /\ svc = "app" /\ PredictAnswered
    /\ Outcome(resp) = "InferenceError" /\ ReachedRuntime(resp)
    /\ Len(prediction_history) = 1
    /\ served = 1

(***************************************************************************)
(* C24.  In the Flask variant, loading is all-or-nothing: after module     *)
(* initialization the globals model and preprocessor are either both       *)
(* loaded or both None, also when the classifier file loads and the        *)
(* preprocessor file then fails to load.                                   *)
(***************************************************************************)
C24_AllOrNothing ==
    (svc = "app" /\ phase = "serving") =>
        /\ (model = "None") <=> (preprocessor = "None")
        /\ (model = "loaded") <=> (files = << "ok", "ok" >>)
        /\ resp.op = "health" => (resp.model_loaded <=> resp.preprocessor_loaded)

\* the classifier file loaded, the preprocessor file did not: the running
\* dashboard reports neither as loaded
C24_Witness ==
    /\ svc = "app" /\ phase = "serving"
    /\ files[1] = "ok" /\ files[2] \in { "missing", "corrupt" }
    /\ model = "None" /\ preprocessor = "None"
    /\ resp.op = "health" /\ ~resp.model_loaded /\ ~resp.preprocessor_loaded

(***************************************************************************)
(* C25.  In prepare_features, the field mapping covers every one of the 22 *)
(* EXPECTED_COLUMNS, so for any validated request the fallback that fills  *)
(* a missing column with 'Not Specified' never fires, and in particular no *)
(* numeric column is ever filled with the string 'Not Specified'.          *)
(***************************************************************************)
C25_FallbackNeverFires ==
    (svc = "api" /\ PredictAnswered /\ ParseRequest(resp.body).ok) =>
        LET request_dict == ParseRequest(resp.body).request_dict
            data_dict == MapFields(request_dict)
        IN  /\ { field_mapping[i][2] : i \in 1..Len(field_mapping) }
                   = { EXPECTED_COLUMNS[i] : i \in 1..Len(EXPECTED_COLUMNS) }
            /\ \A i \in 1..Len(EXPECTED_COLUMNS) : Has(data_dict, EXPECTED_COLUMNS[i])
            /\ FillMissing(data_dict) = data_dict
            /\ Normalized(resp) =>
                   \A f \in NumericNames :
                       /\ Lookup(resp.features, f) # Str("Not Specified")
                       /\ Lookup(resp.features, f).kind = "num"

\* a request that left the optional attributes out was served: its Tags
\* column reads 'Not Specified' from the default of the request class, and
\* the mapping alone had filled all 22 columns
C25_Witness ==
    /\ svc = "api" /\ PredictAnswered /\ resp.code = 200
    /\ ~Has(resp.body, "Tags")
    /\ Lookup(resp.features, "Tags") = Str("Not Specified")
    /\ Len(MapFields(ParseRequest(resp.body).request_dict)) = 22
    /\ Lookup(resp.features, "Page Views Per Visit").kind = "num"

====
